---- MODULE Spec2Model ----
(***************************************************************************)
(* Model of the glycemic metrics engine of scripts/analyze_cgm.py          *)
(* (class CGMAnalyzer).                                                    *)
(*                                                                         *)
(* Numbers.  The code computes in IEEE doubles; the model computes in      *)
(* exact arithmetic.  A float is a normalised fraction [n, d] (d > 0),     *)
(* nan is the fraction 0/0 and +-inf is +-1/0, which is how numpy answers  *)
(* a division by zero (a RuntimeWarning, not an exception).  A standard    *)
(* deviation is kept as the square root of a fraction, [sqrt |-> v], and   *)
(* compared through its square.                                            *)
(***************************************************************************)
EXTENDS Integers, Sequences, FiniteSets, TLC

\* ------------------------------------------------------------------ bounds
MaxLen == 3            \* longest reading sequence of the analyzer runs
MaxCalls == 2          \* calculate_metrics calls made on one analyzer
MaxScanLen == 10       \* longest alternating sequence given to the MAGE scan
MaxGenLen == 5         \* longest unconstrained sequence given to the MAGE scan
MaxAgpLen == 3         \* most rows of a timestamped file
MaxReportLen == 4      \* longest reading sequence of a reported file
MaxRuns == 2           \* runs of the setup wizard over one config file
MaxFiles == 3          \* files matched by the pattern of a batch run
MaxRows == 3           \* rows of a CSV file given to the constructor

\* glucose values (mg/dL) on both sides of each clinical threshold
Values == {40, 54, 69, 70, 180, 181, 250, 251}
\* target ranges handed to calculate_metrics: the default, the pregnancy
\* range of the setup wizard and an inverted one
DefaultTarget == <<70, 180>>
Targets == {<<70, 180>>, <<63, 140>>, <<180, 70>>}

\* ------------------------------------------------------- exact arithmetic
Abs(x) == IF x < 0 THEN 0 - x ELSE x

Sign(x) == IF x > 0 THEN 1 ELSE IF x < 0 THEN 0 - 1 ELSE 0

RECURSIVE GCD(_, _)
GCD(a, b) == IF b = 0 THEN a ELSE GCD(b, a % b)

\* the float n/d; d = 0 gives nan (n = 0) or a signed infinity
Rat(n, d) ==
    IF d = 0 THEN [n |-> Sign(n), d |-> 0]
    ELSE LET g == GCD(Abs(n), Abs(d))
             s == Sign(d)
         IN  [n |-> (s * n) \div g, d |-> (s * d) \div g]

NaN == [n |-> 0, d |-> 0]

IsNaN(x) == x.n = 0 /\ x.d = 0

IsFinite(x) == x.d > 0

FromInt(k) == [n |-> k, d |-> 1]

RAdd(x, y) ==
    IF IsNaN(x) \/ IsNaN(y) THEN NaN
    ELSE IF x.d = 0 /\ y.d = 0 THEN (IF x.n = y.n THEN x ELSE NaN)
    ELSE IF x.d = 0 THEN x
    ELSE IF y.d = 0 THEN y
    ELSE LET g == GCD(x.d, y.d)
         IN  Rat(x.n * (y.d \div g) + y.n * (x.d \div g), (x.d \div g) * y.d)

\* the product, with the common factors taken out before multiplying
RMul(x, y) ==
    IF IsNaN(x) \/ IsNaN(y) THEN NaN
    ELSE IF x.d = 0 \/ y.d = 0 THEN Rat(x.n * y.n, 0)
    ELSE LET g1 == GCD(Abs(x.n), y.d)
             g2 == GCD(Abs(y.n), x.d)
         IN  Rat((x.n \div g1) * (y.n \div g2), (x.d \div g2) * (y.d \div g1))

\* numpy true division: x/0 is nan or +-inf with a warning
RDiv(x, y) ==
    IF IsNaN(x) \/ IsNaN(y) THEN NaN
    ELSE IF y.d = 0 THEN (IF x.d = 0 THEN NaN ELSE FromInt(0))
    ELSE IF y.n = 0 THEN Rat(x.n, 0)
    ELSE Rat(x.n * y.d * Sign(y.n), x.d * Abs(y.n))

\* x < y on floats; every comparison with nan is false
RLess(x, y) ==
    /\ ~IsNaN(x)
    /\ ~IsNaN(y)
    /\ IF x.d = 0 /\ y.d = 0 THEN x.n < y.n
       ELSE IF x.d = 0 THEN x.n < 0
       ELSE IF y.d = 0 THEN y.n > 0
       ELSE LET g == GCD(x.d, y.d)
            IN  x.n * (y.d \div g) < y.n * (x.d \div g)

\* the float sqrt(v), kept symbolically
Sqrt(v) == [sqrt |-> v]

\* k > sqrt(v) for an integer k >= 0; false against nan
GreaterThanSqrt(k, s) == RLess(s.sqrt, FromInt(k * k))

\* ------------------------------------------------------- sequence helpers
RECURSIVE SumSeq(_)
SumSeq(s) == IF s = <<>> THEN 0 ELSE Head(s) + SumSeq(Tail(s))

RECURSIVE SumSq(_)
SumSq(s) == IF s = <<>> THEN 0 ELSE Head(s) * Head(s) + SumSq(Tail(s))

\* the boolean arrays a < c, a <= c, a > c, a >= c and mask1 & mask2
Lt(a, c) == [k \in DOMAIN a |-> a[k] < c]

Le(a, c) == [k \in DOMAIN a |-> a[k] <= c]

Gt(a, c) == [k \in DOMAIN a |-> a[k] > c]

Ge(a, c) == [k \in DOMAIN a |-> a[k] >= c]

And(mask1, mask2) == [k \in DOMAIN mask1 |-> mask1[k] /\ mask2[k]]

\* np.sum(mask): the number of True entries of a boolean array
NpSum(mask) == Cardinality({k \in DOMAIN mask : mask[k]})

\* insertion of x into an ascending sequence
RECURSIVE Insert(_, _)
Insert(x, s) ==
    IF s = <<>> THEN <<x>>
    ELSE IF x <= Head(s) THEN <<x>> \o s
    ELSE <<Head(s)>> \o Insert(x, Tail(s))

RECURSIVE SortAsc(_)
SortAsc(s) == IF s = <<>> THEN <<>> ELSE Insert(Head(s), SortAsc(Tail(s)))

\* the elements of a finite set of integers in ascending order
RECURSIVE SetToSeq(_)
SetToSeq(S) ==
    IF S = {} THEN <<>>
    ELSE LET m == CHOOSE x \in S : \A y \in S : x <= y
         IN  <<m>> \o SetToSeq(S \ {m})

\* ------------------------------------------------------------ numpy pieces
\* np.mean: nan on an empty array
NpMean(v) == Rat(SumSeq(v), Len(v))

\* np.median: middle element of the sorted array, or the mean of the two
\* middle elements; nan on an empty array
NpMedian(v) ==
    LET s == SortAsc(v)
        n == Len(v)
    IN  IF n = 0 THEN NaN
        ELSE IF n % 2 = 1 THEN FromInt(s[(n + 1) \div 2])
        ELSE Rat(s[n \div 2] + s[n \div 2 + 1], 2)

\* population variance, ddof = 0
PopVariance(v) ==
    LET n == Len(v)
    IN  Rat(n * SumSq(v) - SumSeq(v) * SumSeq(v), n * n)

\* mutant: the sample standard deviation (ddof = 1) in place of np.std
NpStd_sample(v) ==
    LET n == Len(v)
    IN  Sqrt(Rat(n * SumSq(v) - SumSeq(v) * SumSeq(v), n * (n - 1)))

\* np.std: population standard deviation; nan on an empty array
NpStd(v) == Sqrt(PopVariance(v))

\* (np.sum(mask) / total_readings) * 100
Percent(count, total) == RMul(Rat(count, total), FromInt(100))

\* ------------------------------------------------------------ the program
VARIABLES
    glucose_df,      \* self.glucose_df: rows [Timestamp, Glucose], sorted
    heap,            \* the dict objects allocated so far, by object id
    self_metrics,    \* self.metrics: the id of the analyzer's dict
    returned,        \* what the caller holds: one entry per finished call
    raised,          \* the exception a call ended with, "none" if it returned
    scan,            \* the loop state of a _calculate_mage run in progress
    agp,             \* what the last create_agp call computed and drew
    report,          \* what the last _generate_text_report call wrote
    batch,           \* a BatchProcessor and its process_files run
    wizard,          \* a CGMSetupWizard run and the config file it writes
    validator        \* a CGMValidator and its validate() run

vars == <<glucose_df, heap, self_metrics, returned, raised, scan, agp, report,
          batch, wizard, validator>>

\* a timestamp is a number of minutes; .dt.hour, .dt.minute and .dt.date
Hour(t) == (t \div 60) % 24

Minute(t) == t % 60

Date(t) == t \div 1440

\* df['Glucose'].values
GlucoseValues(df) == [k \in 1..Len(df) |-> df[k].Glucose]

\* dict.get(key, default) and dict[key] = value
Get(m, key, default) == IF key \in DOMAIN m THEN m[key] ELSE default

Put(m, key, value) == (key :> value) @@ m

EmptyDict == [key \in {} |-> 0]

\* --------------------------------------------------------- _calculate_gri
\* mutant: the weights of the High and Very High bands are exchanged
_calculate_gri_swapped(m) ==
    LET v_low == Get(m, "Very Low (<54)", FromInt(0))
        low == Get(m, "Low (54-69)", FromInt(0))
        high == Get(m, "High (181-250)", FromInt(0))
        v_high == Get(m, "Very High (>250)", FromInt(0))
    IN  RAdd(RAdd(RAdd(RMul(Rat(3, 1), v_low), RMul(Rat(24, 10), low)),
                  RMul(Rat(16, 10), high)),
             RMul(Rat(8, 10), v_high))

_calculate_gri(m) ==
    LET v_low == Get(m, "Very Low (<54)", FromInt(0))
        low == Get(m, "Low (54-69)", FromInt(0))
        high == Get(m, "High (181-250)", FromInt(0))
        v_high == Get(m, "Very High (>250)", FromInt(0))
    IN  RAdd(RAdd(RAdd(RMul(Rat(3, 1), v_low), RMul(Rat(24, 10), low)),
                  RMul(Rat(16, 10), v_high)),
             RMul(Rat(8, 10), high))

\* -------------------------------------------------------- _calculate_mage
\* excursion_start before its first assignment (an unbound local)
Unbound == 0 - 1

\* the locals of the loop before its first iteration
MageInit == [direction |-> 0, excursion_start |-> Unbound, excursions |-> <<>>]

\* glucose[k] with the code's 0-based index
At(glucose, k) == glucose[k + 1]

\* mutant: the swing is taken to start at i instead of i-1
MageStep_startAtI(st, glucose, sd, i) ==
    LET diff == At(glucose, i) - At(glucose, i - 1)
        newdir == IF diff > 0 THEN 1 ELSE 0 - 1
    IN  IF GreaterThanSqrt(Abs(diff), sd)
        THEN IF st.direction = 0
             THEN [st EXCEPT !.direction = newdir, !.excursion_start = i]
             ELSE IF (st.direction = 1 /\ diff < 0)
                     \/ (st.direction = 0 - 1 /\ diff > 0)
             THEN LET excursion_amplitude ==
                          Abs(At(glucose, i - 1) - At(glucose, st.excursion_start))
                  IN  [direction |-> newdir,
                       excursion_start |-> i,
                       excursions |->
                           IF GreaterThanSqrt(excursion_amplitude, sd)
                           THEN Append(st.excursions, excursion_amplitude)
                           ELSE st.excursions]
             ELSE st
        ELSE st

\* mutant: a reversal records its amplitude without comparing it with the SD
MageStep_alwaysRecord(st, glucose, sd, i) ==
    LET diff == At(glucose, i) - At(glucose, i - 1)
        newdir == IF diff > 0 THEN 1 ELSE 0 - 1
    IN  IF GreaterThanSqrt(Abs(diff), sd)
        THEN IF st.direction = 0
             THEN [st EXCEPT !.direction = newdir, !.excursion_start = i - 1]
             ELSE IF (st.direction = 1 /\ diff < 0)
                     \/ (st.direction = 0 - 1 /\ diff > 0)
             THEN LET excursion_amplitude ==
                          Abs(At(glucose, i - 1) - At(glucose, st.excursion_start))
                  IN  [direction |-> newdir,
                       excursion_start |-> i - 1,
                       excursions |-> Append(st.excursions, excursion_amplitude)]
             ELSE st
        ELSE st

\* mutant: a swing that continues is taken to start again at i-1
MageStep_restartOnContinuation(st, glucose, sd, i) ==
    LET diff == At(glucose, i) - At(glucose, i - 1)
        newdir == IF diff > 0 THEN 1 ELSE 0 - 1
    IN  IF GreaterThanSqrt(Abs(diff), sd)
        THEN IF st.direction = 0
             THEN [st EXCEPT !.direction = newdir, !.excursion_start = i - 1]
             ELSE IF (st.direction = 1 /\ diff < 0)
                     \/ (st.direction = 0 - 1 /\ diff > 0)
             THEN LET excursion_amplitude ==
                          Abs(At(glucose, i - 1) - At(glucose, st.excursion_start))
                  IN  [direction |-> newdir,
                       excursion_start |-> i - 1,
                       excursions |->
                           IF GreaterThanSqrt(excursion_amplitude, sd)
                           THEN Append(st.excursions, excursion_amplitude)
                           ELSE st.excursions]
             ELSE [st EXCEPT !.excursion_start = i - 1]
        ELSE st

\* mutant: the first swing is counted as soon as it is seen
MageStep_recordAtStart(st, glucose, sd, i) ==
    LET diff == At(glucose, i) - At(glucose, i - 1)
        newdir == IF diff > 0 THEN 1 ELSE 0 - 1
    IN  IF GreaterThanSqrt(Abs(diff), sd)
        THEN IF st.direction = 0
             THEN [direction |-> newdir, excursion_start |-> i - 1,
                   excursions |-> Append(st.excursions, Abs(diff))]
             ELSE IF (st.direction = 1 /\ diff < 0)
                     \/ (st.direction = 0 - 1 /\ diff > 0)
             THEN LET excursion_amplitude ==
                          Abs(At(glucose, i - 1) - At(glucose, st.excursion_start))
                  IN  [direction |-> newdir,
                       excursion_start |-> i - 1,
                       excursions |->
                           IF GreaterThanSqrt(excursion_amplitude, sd)
                           THEN Append(st.excursions, excursion_amplitude)
                           ELSE st.excursions]
             ELSE st
        ELSE st

\* mutant: a reversal whose amplitude is not recorded forgets the direction
MageStep_forgetDirection(st, glucose, sd, i) ==
    LET diff == At(glucose, i) - At(glucose, i - 1)
        newdir == IF diff > 0 THEN 1 ELSE 0 - 1
    IN  IF GreaterThanSqrt(Abs(diff), sd)
        THEN IF st.direction = 0
             THEN [st EXCEPT !.direction = newdir, !.excursion_start = i - 1]
             ELSE IF (st.direction = 1 /\ diff < 0)
                     \/ (st.direction = 0 - 1 /\ diff > 0)
             THEN LET excursion_amplitude ==
                          Abs(At(glucose, i - 1) - At(glucose, st.excursion_start))
                  IN  [direction |-> IF GreaterThanSqrt(excursion_amplitude, sd)
                                     THEN newdir ELSE 0,
                       excursion_start |-> i - 1,
                       excursions |->
                           IF GreaterThanSqrt(excursion_amplitude, sd)
                           THEN Append(st.excursions, excursion_amplitude)
                           ELSE st.excursions]
             ELSE st
        ELSE st

\* one iteration of the loop body, for index i in 1..len(glucose)-1
MageStep(st, glucose, sd, i) ==
    LET diff == At(glucose, i) - At(glucose, i - 1)
        newdir == IF diff > 0 THEN 1 ELSE 0 - 1
    IN  IF GreaterThanSqrt(Abs(diff), sd)
        THEN IF st.direction = 0
             THEN [st EXCEPT !.direction = newdir, !.excursion_start = i - 1]
             ELSE IF (st.direction = 1 /\ diff < 0)
                     \/ (st.direction = 0 - 1 /\ diff > 0)
             THEN LET excursion_amplitude ==
                          Abs(At(glucose, i - 1) - At(glucose, st.excursion_start))
                  IN  [direction |-> newdir,
                       excursion_start |-> i - 1,
                       excursions |->
                           IF GreaterThanSqrt(excursion_amplitude, sd)
                           THEN Append(st.excursions, excursion_amplitude)
                           ELSE st.excursions]
             ELSE st
        ELSE st

\* the locals after the iterations i = 1..k
RECURSIVE MageScan(_, _, _)
MageScan(glucose, sd, k) ==
    IF k <= 0 THEN MageInit
    ELSE MageStep(MageScan(glucose, sd, k - 1), glucose, sd, k)

\* mutant: np.mean(excursions) without the guard for an empty list
MageResult_noguard(excursions) == Rat(SumSeq(excursions), Len(excursions))

\* np.mean(excursions) if excursions else 0
MageResult(excursions) ==
    IF excursions # <<>> THEN Rat(SumSeq(excursions), Len(excursions))
    ELSE FromInt(0)

_calculate_mage(df) ==
    LET glucose == GlucoseValues(df)
        sd == NpStd(glucose)
    IN  MageResult(MageScan(glucose, sd, Len(glucose) - 1).excursions)

\* ------------------------------------------------- frames and their copies
\* DataFrame objects by identity: `frames` is the sequence of the objects
\* alive in a method, the analyzer's own frame being the first.
\* df.copy(): a new object with the rows of the object ref
DataFrameCopy(frames, ref) == Append(frames, frames[ref])

\* df[name] = column, on the object ref: the column is added to, or replaced
\* in, every row of that object and of no other
SetColumn(frames, ref, name, column) ==
    [frames EXCEPT ![ref] =
        [k \in 1..Len(frames[ref]) |-> (name :> column[k]) @@ frames[ref][k]]]

\* df['Timestamp'].dt.hour and df['Timestamp'].dt.date of the object ref
DtHour(frames, ref) ==
    [k \in 1..Len(frames[ref]) |-> Hour(frames[ref][k].Timestamp)]

DtDate(frames, ref) ==
    [k \in 1..Len(frames[ref]) |-> Date(frames[ref][k].Timestamp)]

\* ----------------------------------------------- _calculate_daily_patterns
\* pandas 'std' of a group: sample standard deviation (ddof = 1), nan for a
\* group of one row
SampleVariance(v) ==
    LET n == Len(v)
    IN  Rat(n * SumSq(v) - SumSeq(v) * SumSeq(v), n * (n - 1))

RECURSIVE RSum(_)
RSum(s) == IF s = <<>> THEN FromInt(0) ELSE RAdd(Head(s), RSum(Tail(s)))

\* Series.mean() of floats: nan values are skipped, nan if nothing is left
SeriesMean(s) ==
    LET kept == SelectSeq(s, LAMBDA x : ~IsNaN(x))
    IN  RDiv(RSum(kept), FromInt(Len(kept)))

\* Series.mean() of standard deviations: the mean of the square roots of the
\* non-nan variances, kept as its terms and their number (0 terms: nan)
SeriesMeanOfSqrt(s) ==
    LET kept == SelectSeq(s, LAMBDA x : ~IsNaN(x))
    IN  [sqrt_terms |-> kept, over |-> Len(kept)]

\* mutant: the columns are added to the analyzer's frame itself
FrameAfterDailyPatterns_inplace(glucose) ==
    LET frames == <<glucose>>
        df == 1
        f1 == SetColumn(frames, df, "Hour", DtHour(frames, df))
        f2 == SetColumn(f1, df, "Date", DtDate(f1, df))
    IN  f2[1]

\* lines 140-142: self.glucose_df after the method has added the columns
\* Hour and Date to its copy
FrameAfterDailyPatterns(glucose) ==
    LET frames == DataFrameCopy(<<glucose>>, 1)
        df == Len(frames)
        f1 == SetColumn(frames, df, "Hour", DtHour(frames, df))
        f2 == SetColumn(f1, df, "Date", DtDate(f1, df))
    IN  f2[1]

_calculate_daily_patterns(m, df) ==
    LET hours == {Hour(df[k].Timestamp) : k \in 1..Len(df)}
        dates == {Date(df[k].Timestamp) : k \in 1..Len(df)}
        OfHour(h) == GlucoseValues(
            SelectSeq(df, LAMBDA r : Hour(r.Timestamp) = h))
        OfDate(d) == GlucoseValues(
            SelectSeq(df, LAMBDA r : Date(r.Timestamp) = d))
        hourly_mean == [h \in hours |-> NpMean(OfHour(h))]
        days == SetToSeq(dates)
        daily_mean == [k \in 1..Len(days) |-> NpMean(OfDate(days[k]))]
        daily_std == [k \in 1..Len(days) |-> SampleVariance(OfDate(days[k]))]
        m1 == Put(m, "Hourly Pattern", hourly_mean)
    IN  Put(m1, "Daily Stats",
            [key \in {"Mean of Daily Means", "Mean of Daily SDs", "Days Analyzed"} |->
                CASE key = "Mean of Daily Means" -> SeriesMean(daily_mean)
                  [] key = "Mean of Daily SDs" -> SeriesMeanOfSqrt(daily_std)
                  [] key = "Days Analyzed" -> Len(days)])

\* ------------------------------------------------------ calculate_metrics
\* (SD / mean) * 100, for a mean that is not negative
CoefficientOfVariation(sd, mean) ==
    Sqrt(RMul(RDiv(sd.sqrt, RMul(mean, mean)), FromInt(100 * 100)))

BasicStatistics(m, glucose_values) ==
    LET m1 == Put(m, "Mean Glucose", NpMean(glucose_values))
        m2 == Put(m1, "Median Glucose", NpMedian(glucose_values))
        m3 == Put(m2, "SD", NpStd(glucose_values))
    IN  Put(m3, "CV", CoefficientOfVariation(m3["SD"], m3["Mean Glucose"]))

\* mutant: the in-range mask excludes the two bounds
TimeInRange_strict(m, glucose_values, low_limit, high_limit) ==
    LET total_readings == Len(glucose_values)
        m1 == Put(m, "TIR", Percent(
                  NpSum(And(Gt(glucose_values, low_limit),
                            Lt(glucose_values, high_limit))), total_readings))
        m2 == Put(m1, "TAR", Percent(
                  NpSum(Gt(glucose_values, high_limit)), total_readings))
    IN  Put(m2, "TBR", Percent(
                  NpSum(Lt(glucose_values, low_limit)), total_readings))

TimeInRange(m, glucose_values, low_limit, high_limit) ==
    LET total_readings == Len(glucose_values)
        m1 == Put(m, "TIR", Percent(
                  NpSum(And(Ge(glucose_values, low_limit),
                            Le(glucose_values, high_limit))), total_readings))
        m2 == Put(m1, "TAR", Percent(
                  NpSum(Gt(glucose_values, high_limit)), total_readings))
    IN  Put(m2, "TBR", Percent(
                  NpSum(Lt(glucose_values, low_limit)), total_readings))

\* mutant: the Low and High bands end at the configured bounds
DetailedRanges_collapsed(m, glucose_values, low_limit, high_limit) ==
    LET total_readings == Len(glucose_values)
        m1 == Put(m, "Very Low (<54)", Percent(
                  NpSum(Lt(glucose_values, 54)), total_readings))
        m2 == Put(m1, "Low (54-69)", Percent(
                  NpSum(And(Ge(glucose_values, 54),
                            Lt(glucose_values, low_limit))), total_readings))
        m3 == Put(m2, "High (181-250)", Percent(
                  NpSum(And(Gt(glucose_values, high_limit),
                            Le(glucose_values, 250))), total_readings))
    IN  Put(m3, "Very High (>250)", Percent(
                  NpSum(Gt(glucose_values, 250)), total_readings))

\* mutant: the High band starts at 180 inclusive
DetailedRanges_from180(m, glucose_values, low_limit, high_limit) ==
    LET total_readings == Len(glucose_values)
        m1 == Put(m, "Very Low (<54)", Percent(
                  NpSum(Lt(glucose_values, 54)), total_readings))
        m2 == Put(m1, "Low (54-69)", Percent(
                  NpSum(And(Ge(glucose_values, 54),
                            Lt(glucose_values, 70))), total_readings))
        m3 == Put(m2, "High (181-250)", Percent(
                  NpSum(And(Ge(glucose_values, 180),
                            Le(glucose_values, 250))), total_readings))
    IN  Put(m3, "Very High (>250)", Percent(
                  NpSum(Gt(glucose_values, 250)), total_readings))

\* mutant: the Low band ends below 69
DetailedRanges_lowBelow69(m, glucose_values, low_limit, high_limit) ==
    LET total_readings == Len(glucose_values)
        m1 == Put(m, "Very Low (<54)", Percent(
                  NpSum(Lt(glucose_values, 54)), total_readings))
        m2 == Put(m1, "Low (54-69)", Percent(
                  NpSum(And(Ge(glucose_values, 54),
                            Lt(glucose_values, 69))), total_readings))
        m3 == Put(m2, "High (181-250)", Percent(
                  NpSum(And(Gt(glucose_values, 180),
                            Le(glucose_values, 250))), total_readings))
    IN  Put(m3, "Very High (>250)", Percent(
                  NpSum(Gt(glucose_values, 250)), total_readings))

\* the detailed ranges: fixed thresholds, the limits of the call are not used
DetailedRanges(m, glucose_values, low_limit, high_limit) ==
    LET total_readings == Len(glucose_values)
        m1 == Put(m, "Very Low (<54)", Percent(
                  NpSum(Lt(glucose_values, 54)), total_readings))
        m2 == Put(m1, "Low (54-69)", Percent(
                  NpSum(And(Ge(glucose_values, 54),
                            Lt(glucose_values, 70))), total_readings))
        m3 == Put(m2, "High (181-250)", Percent(
                  NpSum(And(Gt(glucose_values, 180),
                            Le(glucose_values, 250))), total_readings))
    IN  Put(m3, "Very High (>250)", Percent(
                  NpSum(Gt(glucose_values, 250)), total_readings))

\* mutant: the slope is subtracted
GMI_minus(mean) == RAdd(Rat(331, 100), RMul(Rat(0 - 2392, 100000), mean))

\* 3.31 + 0.02392 * mean
GMI(mean) == RAdd(Rat(331, 100), RMul(Rat(2392, 100000), mean))

\* mutant: GRI is computed before the detailed ranges of this call are stored
MetricsAfter_staleGri(m, df, target_range) ==
    LET low_limit == target_range[1]
        high_limit == target_range[2]
        glucose_values == GlucoseValues(df)
        m1 == BasicStatistics(m, glucose_values)
        m2 == TimeInRange(m1, glucose_values, low_limit, high_limit)
        m3 == DetailedRanges(m2, glucose_values, low_limit, high_limit)
        m4 == Put(m3, "GMI", GMI(m3["Mean Glucose"]))
        m5 == Put(m4, "GRI", _calculate_gri(m))
        m6 == Put(m5, "MAGE", _calculate_mage(df))
    IN  _calculate_daily_patterns(m6, df)

\* the contents of the dict self.metrics when calculate_metrics returns
MetricsAfter(m, df, target_range) ==
    LET low_limit == target_range[1]
        high_limit == target_range[2]
        glucose_values == GlucoseValues(df)
        m1 == BasicStatistics(m, glucose_values)
        m2 == TimeInRange(m1, glucose_values, low_limit, high_limit)
        m3 == DetailedRanges(m2, glucose_values, low_limit, high_limit)
        m4 == Put(m3, "GMI", GMI(m3["Mean Glucose"]))
        m5 == Put(m4, "GRI", _calculate_gri(m4))
        m6 == Put(m5, "MAGE", _calculate_mage(df))
    IN  _calculate_daily_patterns(m6, df)

\* calculate_metrics(target_range): fills the analyzer's own dict in place and
\* returns a reference to it; no statement of it raises
calculate_metrics(target_range) ==
    /\ Len(returned) < MaxCalls
    /\ \E metrics \in {MetricsAfter(heap[self_metrics], glucose_df, target_range)} :
           /\ heap' = [heap EXCEPT ![self_metrics] = metrics]
           /\ returned' = Append(returned,
                  [target_range |-> target_range,
                   ref |-> self_metrics,
                   snapshot |-> metrics])
    /\ glucose_df' = FrameAfterDailyPatterns(glucose_df)
    /\ raised' = "none"
    /\ UNCHANGED <<self_metrics, scan, agp, report, batch, wizard, validator>>

\* -------------------------------------------------------------- create_agp
\* df['Hour']: hour + minute / 60
FractionalHour(t) == RAdd(FromInt(Hour(t)), Rat(Minute(t), 60))

\* df['Timestamp'].dt.hour + df['Timestamp'].dt.minute / 60 of the object ref
DtFractionalHour(frames, ref) ==
    [k \in 1..Len(frames[ref]) |-> FractionalHour(frames[ref][k].Timestamp)]

\* mutant: the bucket of an hour includes its upper end
InBucket_inclusive(t, hour) ==
    /\ ~RLess(FractionalHour(t), FromInt(hour))
    /\ ~RLess(FromInt(hour + 1), FractionalHour(t))

\* the mask (df['Hour'] >= hour) & (df['Hour'] < hour + 1)
InBucket(t, hour) ==
    /\ ~RLess(FractionalHour(t), FromInt(hour))
    /\ RLess(FractionalHour(t), FromInt(hour + 1))

\* np.percentile(data, q) with linear interpolation, for non-empty data
NpPercentile(data, q) ==
    LET s == SortAsc(data)
        pos == (Len(data) - 1) * q
        lo == pos \div 100
        hi == IF lo + 1 < Len(data) THEN lo + 1 ELSE lo
    IN  RAdd(FromInt(At(s, lo)),
             RMul(Rat(pos % 100, 100), FromInt(At(s, hi) - At(s, lo))))

percentiles == <<10, 25, 50, 75, 90>>

\* lines 169-176: the dict hourly_percentiles after the loop over range(24)
HourlyPercentiles(df) ==
    LET hour_data(hour) == GlucoseValues(
            SelectSeq(df, LAMBDA r : InBucket(r.Timestamp, hour)))
        hours == {hour \in 0..23 : Len(hour_data(hour)) > 0}
    IN  [hour \in hours |->
            [k \in 1..Len(percentiles) |-> NpPercentile(hour_data(hour), percentiles[k])]]

\* lines 166-167: self.glucose_df after the method has added the fractional
\* Hour column to its copy
FrameAfterAgp(glucose) ==
    LET frames == DataFrameCopy(<<glucose>>, 1)
        df == Len(frames)
        f1 == SetColumn(frames, df, "Hour", DtFractionalHour(frames, df))
    IN  f1[1]

\* create_agp: works on a copy of the frame, computes the percentile bands
\* and draws them
create_agp ==
    /\ agp' = [drawn |-> TRUE, hourly_percentiles |-> HourlyPercentiles(glucose_df)]
    /\ glucose_df' = FrameAfterAgp(glucose_df)
    /\ UNCHANGED <<heap, self_metrics, returned, raised, scan, report,
                   batch, wizard, validator>>

\* --------------------------------------------------- _generate_text_report
\* the float comparisons x < c and x > c against an integer constant
LessThan(x, c) == RLess(x, FromInt(c))

MoreThan(x, c) == RLess(FromInt(c), x)

LessOrEqual(x, c) == ~IsNaN(x) /\ ~RLess(FromInt(c), x)

\* mutant: the tier boundaries belong to the lower tier
RiskLevel_closed(gri) ==
    IF LessOrEqual(gri, 20) THEN "low"
    ELSE IF LessOrEqual(gri, 40) THEN "moderate-low"
    ELSE IF LessOrEqual(gri, 60) THEN "moderate"
    ELSE IF LessOrEqual(gri, 80) THEN "moderate-high"
    ELSE "high"

\* lines 380-390: the risk level written for a GRI; the five texts of the
\* source are named low, moderate-low, moderate, moderate-high and high
RiskLevel(gri) ==
    IF LessThan(gri, 20) THEN "low"
    ELSE IF LessThan(gri, 40) THEN "moderate-low"
    ELSE IF LessThan(gri, 60) THEN "moderate"
    ELSE IF LessThan(gri, 80) THEN "moderate-high"
    ELSE "high"

\* lines 393-402: the advice lines written, named by the metric they test
Recommendations(m) ==
    {key \in {"TIR", "CV", "TBR", "TAR"} :
        CASE key = "TIR" -> LessThan(m["TIR"], 70)
          [] key = "CV" -> RLess(FromInt(36 * 36), m["CV"].sqrt)
          [] key = "TBR" -> MoreThan(m["TBR"], 4)
          [] key = "TAR" -> MoreThan(m["TAR"], 25)}

\* _generate_text_report: reads self.metrics and the frame and writes the
\* report file; before any calculate_metrics call the dict has no
\* 'Daily Stats' and the first lookup raises KeyError
_generate_text_report ==
    LET m == heap[self_metrics]
    IN  /\ IF "Daily Stats" \in DOMAIN m
           THEN /\ report' = [written |-> TRUE,
                              days |-> m["Daily Stats"]["Days Analyzed"],
                              points |-> Len(glucose_df),
                              risk_level |-> RiskLevel(m["GRI"]),
                              recommendations |-> Recommendations(m)]
                /\ raised' = "none"
           ELSE /\ raised' = "KeyError"
                /\ UNCHANGED report
        /\ UNCHANGED <<glucose_df, heap, self_metrics, returned, scan, agp, batch,
                       wizard, validator>>

\* ------------------------------------------------- the analyzer's lifetime
SeqsUpTo(S, n) == UNION {[1..k -> S] : k \in 0..n}

\* the minute of the k-th reading of a file: unevenly spaced, two readings
\* half an hour apart, then twelve hours to the next two
SampleTime(k) == ((k - 1) \div 2) * 750 + ((k - 1) % 2) * 30

\* the frame _load_glucose_data leaves: rows in ascending Timestamp order
Frame(vals) ==
    [k \in 1..Len(vals) |-> [Timestamp |-> SampleTime(k), Glucose |-> vals[k]]]

ScanIdle == [pc |-> "idle", i |-> 0, sd |-> Sqrt(NaN), locals |-> MageInit,
             result |-> NaN]

\* no chart drawn, no report written, no batch run and no wizard run yet
AgpNone == [drawn |-> FALSE, hourly_percentiles |-> <<>>]

ReportNone == [written |-> FALSE, days |-> 0, points |-> 0, risk_level |-> "",
               recommendations |-> {}]

\* a BatchProcessor with the default configuration, process_files not called
BatchIdle ==
    [pc |-> "idle", max_parallel |-> 4, validate_first |-> TRUE,
     generate_comparison |-> TRUE, files |-> {}, future |-> <<>>,
     overran |-> {}, collected |-> {}, results |-> <<>>, errors |-> <<>>,
     comparison |-> FALSE, summary |-> [status |-> "none"],
     main_raised |-> "none", exit_status |-> 0 - 1]

\* the wizard not started and no config file on disk
NoFile == [exists |-> FALSE, low |-> 0, high |-> 0, population |-> ""]

\* df is None
NoFrame == [columns |-> <<>>, rows |-> <<>>, parsed |-> FALSE]

NoPath == [exists |-> FALSE, size |-> 0, readable |-> FALSE, frame |-> NoFrame]

\* CGMValidator.__init__: is_valid True and empty lists; statistics is kept
\* as the set of its keys.  No file is being validated.
ValidatorIdle ==
    [pc |-> "idle", file |-> NoPath, df |-> NoFrame,
     validation_results |->
         [is_valid |-> TRUE, errors |-> <<>>, warnings |-> <<>>,
          suggestions |-> <<>>, statistics |-> {}]]

WizardIdle == [pc |-> "idle", runs |-> 0, config |-> EmptyDict, file |-> NoFile]

\* __init__: the loaded frame and a fresh, empty metrics dict
Init ==
    /\ glucose_df \in {Frame(vals) : vals \in SeqsUpTo(Values, MaxLen)}
    /\ heap = <<EmptyDict>>
    /\ self_metrics = 1
    /\ returned = <<>>
    /\ raised = "none"
    /\ scan = ScanIdle
    /\ agp = AgpNone
    /\ report = ReportNone
    /\ batch = BatchIdle
    /\ wizard = WizardIdle
    /\ validator = ValidatorIdle

Next == \E target_range \in Targets : calculate_metrics(target_range)

Spec == Init /\ [][Next]_vars

\* ------------------------------------- _calculate_mage, one iteration a step
\* the alternating sequence a, b, a, b, ... of length n (constant when a = b)
Alternating(a, b, n) == [k \in 1..n |-> IF k % 2 = 1 THEN a ELSE b]

\* evenly spaced readings, for swings that drift back before they reverse
ScanValues == {50, 100, 150, 200, 250}

ScanInputs ==
    {Alternating(a, b, n) : a \in Values, b \in Values, n \in 0..MaxScanLen}
        \cup SeqsUpTo(Values, MaxLen)
        \cup SeqsUpTo(ScanValues, MaxGenLen)

InitMage ==
    /\ glucose_df \in {Frame(vals) : vals \in ScanInputs}
    /\ heap = <<EmptyDict>>
    /\ self_metrics = 1
    /\ returned = <<>>
    /\ raised = "none"
    /\ scan = ScanIdle
    /\ agp = AgpNone
    /\ report = ReportNone
    /\ batch = BatchIdle
    /\ wizard = WizardIdle
    /\ validator = ValidatorIdle

\* lines 114-119: the array, its SD and the initial locals
MageBegin ==
    /\ scan.pc = "idle"
    /\ scan' = [pc |-> "loop", i |-> 1, sd |-> NpStd(GlucoseValues(glucose_df)),
                locals |-> MageInit, result |-> NaN]
    /\ UNCHANGED <<glucose_df, heap, self_metrics, returned, raised, agp, report,
                   batch, wizard, validator>>

\* lines 121-134: the loop body for the index i
MageIterate ==
    /\ scan.pc = "loop"
    /\ scan.i < Len(glucose_df)
    /\ scan' = [scan EXCEPT
                   !.locals = MageStep(scan.locals, GlucoseValues(glucose_df),
                                       scan.sd, scan.i),
                   !.i = scan.i + 1]
    /\ UNCHANGED <<glucose_df, heap, self_metrics, returned, raised, agp, report,
                   batch, wizard, validator>>

\* line 136: the loop is over
MageReturn ==
    /\ scan.pc = "loop"
    /\ scan.i >= Len(glucose_df)
    /\ scan' = [scan EXCEPT !.pc = "done",
                            !.result = MageResult(scan.locals.excursions)]
    /\ UNCHANGED <<glucose_df, heap, self_metrics, returned, raised, agp, report,
                   batch, wizard, validator>>

NextMage == MageBegin \/ MageIterate \/ MageReturn

SpecMage == InitMage /\ [][NextMage]_vars

\* ------------------------------------- the analyzer over timestamped files
\* minutes of the readings of the files: 00:00, 00:59, 01:00 and 23:30 of the
\* first day, 00:00 and 01:00 of the second
TimeGrid == {0, 59, 60, 1410, 1440, 1500}

AgpValues == {100, 200}

\* the frames of up to n rows with distinct timestamps, in ascending order
TimedFrames(n) ==
    UNION {
        {[k \in 1..Len(SetToSeq(T)) |->
             [Timestamp |-> SetToSeq(T)[k], Glucose |-> vals[k]]] :
            vals \in [1..Cardinality(T) -> AgpValues]} :
        T \in {T \in SUBSET TimeGrid : Cardinality(T) <= n}}

InitAgp ==
    /\ glucose_df \in TimedFrames(MaxAgpLen)
    /\ heap = <<EmptyDict>>
    /\ self_metrics = 1
    /\ returned = <<>>
    /\ raised = "none"
    /\ scan = ScanIdle
    /\ agp = AgpNone
    /\ report = ReportNone
    /\ batch = BatchIdle
    /\ wizard = WizardIdle
    /\ validator = ValidatorIdle

NextAgp == calculate_metrics(DefaultTarget) \/ create_agp

SpecAgp == InitAgp /\ [][NextAgp]_vars

\* --------------------------------------------- analysis followed by reports
\* glucose values of the reported files: one in each of the five bands
ReportValues == {40, 60, 100, 200, 260}

InitReport ==
    /\ glucose_df \in {Frame(vals) : vals \in SeqsUpTo(ReportValues, MaxReportLen)}
    /\ heap = <<EmptyDict>>
    /\ self_metrics = 1
    /\ returned = <<>>
    /\ raised = "none"
    /\ scan = ScanIdle
    /\ agp = AgpNone
    /\ report = ReportNone
    /\ batch = BatchIdle
    /\ wizard = WizardIdle
    /\ validator = ValidatorIdle

NextReport == calculate_metrics(DefaultTarget) \/ _generate_text_report

SpecReport == InitReport /\ [][NextReport]_vars

\* --------------------------------------- batch_process.py, BatchProcessor
\* The files are numbered; a future is "pending" until a worker of the pool
\* takes it, "running" in the worker, and done as "success" or "error" (the
\* dict _process_single_file returns) or as "exception" (result() raises).
FileNames == 1..MaxFiles

DoneStates == {"success", "error", "exception"}

\* max_parallel of the configuration: the default and two smaller pools
ParallelChoices == {1, 2, 4}

Running(b) == {f \in b.files : b.future[f] = "running"}

\* lines 65-95: glob, the validation filter, and one submit per file
process_files(found, valid) ==
    /\ batch.pc = "idle"
    /\ valid \subseteq found
    /\ IF found = {}
       THEN batch' = [batch EXCEPT
                         !.pc = "returned",
                         !.summary = [status |-> "error",
                                      message |-> "No files found"]]
       ELSE IF batch.validate_first /\ valid = {}
       THEN batch' = [batch EXCEPT
                         !.pc = "returned",
                         !.summary = [status |-> "error",
                                      message |-> "No valid files"]]
       ELSE LET files == IF batch.validate_first THEN valid ELSE found
            IN  batch' = [batch EXCEPT
                             !.pc = "as_completed",
                             !.files = files,
                             !.future = [f \in files |-> "pending"]]
    /\ UNCHANGED <<glucose_df, heap, self_metrics, returned, raised, scan, agp,
                   report, wizard, validator>>

\* a free worker of the pool takes a submitted file
WorkerStart(f) ==
    /\ batch.pc = "as_completed"
    /\ f \in batch.files
    /\ batch.future[f] = "pending"
    /\ Cardinality(Running(batch)) < batch.max_parallel
    /\ batch' = [batch EXCEPT !.future[f] = "running"]
    /\ UNCHANGED <<glucose_df, heap, self_metrics, returned, raised, scan, agp,
                   report, wizard, validator>>

\* the worker of f has been running for more than 300 seconds
WorkerOverrun(f) ==
    /\ batch.pc = "as_completed"
    /\ f \in batch.files
    /\ batch.future[f] = "running"
    /\ f \notin batch.overran
    /\ batch' = [batch EXCEPT !.overran = batch.overran \cup {f}]
    /\ UNCHANGED <<glucose_df, heap, self_metrics, returned, raised, scan, agp,
                   report, wizard, validator>>

\* _process_single_file returns: the success dict, or the error dict of its
\* own except clause (lines 147-178)
_process_single_file(f, status) ==
    /\ batch.pc = "as_completed"
    /\ f \in batch.files
    /\ batch.future[f] = "running"
    /\ batch' = [batch EXCEPT !.future[f] = status]
    /\ UNCHANGED <<glucose_df, heap, self_metrics, returned, raised, scan, agp,
                   report, wizard, validator>>

\* the worker process of f dies: the pool is broken and every future not
\* done yet ends with BrokenProcessPool
WorkerDies(f) ==
    /\ batch.pc = "as_completed"
    /\ f \in batch.files
    /\ batch.future[f] = "running"
    /\ batch' = [batch EXCEPT
                    !.future = [g \in batch.files |->
                                   IF batch.future[g] \in DoneStates
                                   THEN batch.future[g] ELSE "exception"]]
    /\ UNCHANGED <<glucose_df, heap, self_metrics, returned, raised, scan, agp,
                   report, wizard, validator>>

\* lines 100-113, the body of the loop for a future as_completed has yielded:
\* the future is done, so result(timeout=300) returns or raises at once
Collect(b, f) ==
    IF b.future[f] = "exception"
    THEN [b EXCEPT !.collected = b.collected \cup {f},
                   !.errors = Append(b.errors, [file |-> f])]
    ELSE [b EXCEPT !.collected = b.collected \cup {f},
                   !.results = Append(b.results,
                                      [file |-> f, status |-> b.future[f]])]

\* lines 99-113: as_completed yields a future that is done, in any order of
\* completion, and blocks while none is
as_completed(f) ==
    /\ batch.pc = "as_completed"
    /\ f \in batch.files \ batch.collected
    /\ batch.future[f] \in DoneStates
    /\ batch' = Collect(batch, f)
    /\ UNCHANGED <<glucose_df, heap, self_metrics, returned, raised, scan, agp,
                   report, wizard, validator>>

\* lines 285-293
_generate_summary(b) ==
    [total_files |-> Len(b.results) + Len(b.errors),
     successful |-> Len(b.results),
     failed |-> Len(b.errors),
     output_directory |-> "./batch_output"]

\* lines 113-127: every future has been yielded; the pool shuts down, the
\* comparison report is written for more than one result, and the summary
\* is returned
process_files_return ==
    /\ batch.pc = "as_completed"
    /\ batch.collected = batch.files
    /\ batch' = [batch EXCEPT
                    !.pc = "returned",
                    !.comparison = batch.generate_comparison /\ Len(batch.results) > 1,
                    !.summary = _generate_summary(batch)]
    /\ UNCHANGED <<glucose_df, heap, self_metrics, returned, raised, scan, agp,
                   report, wizard, validator>>

\* main, lines 345-355, with the dict process_files returned: it reads
\* result['output_directory'] and result['failed'], keys the two early error
\* dicts do not have
BatchMain ==
    /\ batch.pc = "returned"
    /\ IF "output_directory" \notin DOMAIN batch.summary
          \/ "failed" \notin DOMAIN batch.summary
       THEN batch' = [batch EXCEPT !.pc = "exited", !.main_raised = "KeyError"]
       ELSE batch' = [batch EXCEPT
                         !.pc = "exited",
                         !.exit_status = IF batch.summary.failed = 0 THEN 0 ELSE 1]
    /\ UNCHANGED <<glucose_df, heap, self_metrics, returned, raised, scan, agp,
                   report, wizard, validator>>

\* __init__ with the configuration of _load_config
InitBatch ==
    /\ glucose_df = <<>>
    /\ heap = <<EmptyDict>>
    /\ self_metrics = 1
    /\ returned = <<>>
    /\ raised = "none"
    /\ scan = ScanIdle
    /\ agp = AgpNone
    /\ report = ReportNone
    /\ \E p \in ParallelChoices, v \in BOOLEAN :
           batch = [BatchIdle EXCEPT !.max_parallel = p, !.validate_first = v]
    /\ wizard = WizardIdle
    /\ validator = ValidatorIdle

NextBatch ==
    \/ \E found \in SUBSET FileNames, valid \in SUBSET FileNames :
           process_files(found, valid)
    \/ \E f \in FileNames : WorkerStart(f)
    \/ \E f \in FileNames : WorkerOverrun(f)
    \/ \E f \in FileNames, status \in {"success", "error"} :
           _process_single_file(f, status)
    \/ \E f \in FileNames : WorkerDies(f)
    \/ \E f \in FileNames : as_completed(f)
    \/ process_files_return
    \/ BatchMain

SpecBatch == InitBatch /\ [][NextBatch]_vars

\* ------------------------------------------- setup.py, the CGMSetupWizard
\* What the user types at a prompt is a sequence of characters; "sup2" stands
\* for the one character U+00B2 (superscript two), a digit for str.isdigit()
\* that int() does not accept.
AsciiDigits == {"0", "1", "2", "3", "4", "5", "6", "7", "8", "9"}

DigitValue(c) ==
    CASE c = "0" -> 0 [] c = "1" -> 1 [] c = "2" -> 2 [] c = "3" -> 3
      [] c = "4" -> 4 [] c = "5" -> 5 [] c = "6" -> 6 [] c = "7" -> 7
      [] c = "8" -> 8 [] OTHER -> 9

\* str.strip(): leading and trailing blanks removed
RECURSIVE Strip(_)
Strip(s) ==
    IF s = <<>> THEN s
    ELSE IF Head(s) = " " THEN Strip(Tail(s))
    ELSE IF s[Len(s)] = " " THEN Strip(SubSeq(s, 1, Len(s) - 1))
    ELSE s

\* str.isdigit(): non-empty and every character a digit
IsDigit(s) == Len(s) > 0 /\ \A k \in 1..Len(s) : s[k] \in AsciiDigits \cup {"sup2"}

\* int(s) of a string that passed isdigit() raises ValueError unless every
\* character is a decimal digit
IntRaises(s) == \E k \in 1..Len(s) : s[k] \notin AsciiDigits

RECURSIVE IntOf(_)
IntOf(s) ==
    IF s = <<>> THEN 0
    ELSE IntOf(SubSeq(s, 1, Len(s) - 1)) * 10 + DigitValue(s[Len(s)])

\* int(x) if x.isdigit() else default, for an answer that does not raise
IntOrDefault(x, default) == IF IsDigit(x) THEN IntOf(x) ELSE default

\* the answer raises ValueError in `int(x) if x.isdigit() else default`
AnswerRaises(x) == IsDigit(x) /\ IntRaises(x)

\* populations.get(choice, populations["1"])[0]
PopulationOf(choice) ==
    CASE choice = "1" -> "adult"
      [] choice = "2" -> "pediatric"
      [] choice = "3" -> "elderly"
      [] choice = "4" -> "pregnancy"
      [] choice = "5" -> "custom"
      [] OTHER -> "adult"

\* answers typed at the prompts of _setup_targets
TypedChoices == {"", "1", "2", "4", "5", "9"}

TypedBounds ==
    {<<>>, <<"a">>, <<"-", "5">>, <<"0">>, <<"7", "0">>, <<" ", "6", "3">>,
     <<"1", "0", "0">>, <<"1", "4", "0">>, <<"2", "0", "0">>, <<"sup2">>}

TypedGoals == {<<>>, <<"5", "0">>, <<"sup2">>}

\* main(): a new wizard object, self.config = {}
WizardMain ==
    /\ wizard.pc \in {"idle", "saved", "crashed"}
    /\ wizard.runs < MaxRuns
    /\ wizard' = [wizard EXCEPT !.pc = "load", !.runs = wizard.runs + 1,
                                !.config = EmptyDict]
    /\ UNCHANGED <<glucose_df, heap, self_metrics, returned, raised, scan, agp,
                   report, batch, validator>>

\* load_existing_config: the target range of an existing file is copied into
\* self.config when the user answers yes (lines 340-342)
load_existing_config(answer) ==
    /\ wizard.pc = "load"
    /\ wizard' = [wizard EXCEPT
                     !.pc = "targets",
                     !.config =
                         IF wizard.file.exists /\ answer
                         THEN Put(Put(wizard.config, "target_low", wizard.file.low),
                                  "target_high", wizard.file.high)
                         ELSE wizard.config]
    /\ UNCHANGED <<glucose_df, heap, self_metrics, returned, raised, scan, agp,
                   report, batch, validator>>

\* lines 135-139: the two bounds of the custom population
CustomTargets(config, low, high) ==
    Put(Put(config, "target_low", IntOrDefault(Strip(low), 70)),
        "target_high", IntOrDefault(Strip(high), 180))

\* _setup_targets: the population, and for the custom one the four typed
\* answers in turn; an answer int() rejects ends the wizard with ValueError,
\* the keys assigned before it staying in self.config
_setup_targets(choice, low, high, tir, cv) ==
    /\ wizard.pc = "targets"
    /\ LET population == PopulationOf(IF choice = "" THEN "1" ELSE choice)
           c1 == Put(wizard.config, "target_low", IntOrDefault(Strip(low), 70))
           c2 == CustomTargets(wizard.config, low, high)
           c3 == Put(c2, "tir_goal", IntOrDefault(Strip(tir), 70))
           c4 == Put(c3, "cv_target", IntOrDefault(Strip(cv), 36))
       IN  IF population = "custom"
           THEN IF AnswerRaises(Strip(low))
                THEN wizard' = [wizard EXCEPT !.pc = "crashed"]
                ELSE IF AnswerRaises(Strip(high))
                THEN wizard' = [wizard EXCEPT !.pc = "crashed", !.config = c1]
                ELSE IF AnswerRaises(Strip(tir))
                THEN wizard' = [wizard EXCEPT !.pc = "crashed", !.config = c2]
                ELSE IF AnswerRaises(Strip(cv))
                THEN wizard' = [wizard EXCEPT !.pc = "crashed", !.config = c3]
                ELSE wizard' = [wizard EXCEPT !.pc = "save", !.config = c4]
           ELSE wizard' = [wizard EXCEPT
                              !.pc = "save",
                              !.config = Put(wizard.config, "default_population",
                                             population)]
    /\ UNCHANGED <<glucose_df, heap, self_metrics, returned, raised, scan, agp,
                   report, batch, validator>>

\* defaults.target_range and defaults.population of full_config
FullConfig(config) ==
    [exists |-> TRUE,
     low |-> Get(config, "target_low", 70),
     high |-> Get(config, "target_high", 180),
     population |-> Get(config, "default_population", "")]

\* _save_config: full_config written over the file
_save_config ==
    /\ wizard.pc = "save"
    /\ wizard' = [wizard EXCEPT !.pc = "saved", !.file = FullConfig(wizard.config)]
    /\ UNCHANGED <<glucose_df, heap, self_metrics, returned, raised, scan, agp,
                   report, batch, validator>>

\* test_skill.py, test_config: the check of the configured range
test_config(file) == ~(file.low >= file.high)

\* no config file on disk, no analyzer involved
InitSetup ==
    /\ glucose_df = <<>>
    /\ heap = <<EmptyDict>>
    /\ self_metrics = 1
    /\ returned = <<>>
    /\ raised = "none"
    /\ scan = ScanIdle
    /\ agp = AgpNone
    /\ report = ReportNone
    /\ batch = BatchIdle
    /\ wizard = WizardIdle
    /\ validator = ValidatorIdle

NextSetup ==
    \/ WizardMain
    \/ \E answer \in BOOLEAN : load_existing_config(answer)
    \/ \E choice \in TypedChoices, low \in TypedBounds, high \in TypedBounds,
          tir \in TypedGoals, cv \in TypedGoals :
           _setup_targets(choice, low, high, tir, cv)
    \/ _save_config

SpecSetup == InitSetup /\ [][NextSetup]_vars

\* ------------------------------------ _load_glucose_data, from a CSV file
\* A file is its rows in file order: the minute the Date and Time cells
\* stand for, and the text of the 'Sensor Glucose (mg/dL)' cell (empty,
\* a word such as "Low", or digits).
CsvTimes == {0, 30, 1440}

CsvCells == {<<>>, <<"L", "o", "w">>, <<"4", "0">>, <<"2", "5", "0">>}

CsvFiles ==
    SeqsUpTo([Timestamp : CsvTimes, Sensor : CsvCells], MaxRows)

\* pd.read_csv: one row per line, labelled 0, 1, 2, ... in file order
ReadCsv(file) ==
    [k \in 1..Len(file) |->
        [index |-> k - 1, Timestamp |-> file[k].Timestamp, Sensor |-> file[k].Sensor]]

\* pd.to_numeric(..., errors='coerce') gives nan for a cell that is empty or
\* not a number
CoercedToNan(cell) == ~(Len(cell) > 0 /\ \A k \in 1..Len(cell) : cell[k] \in AsciiDigits)

\* lines 41-42: the Glucose column, the rows with a nan Glucose dropped; the
\* rows left keep their labels
DropNaGlucose(df) ==
    LET kept == SelectSeq(df, LAMBDA r : ~CoercedToNan(r.Sensor))
    IN  [k \in 1..Len(kept) |->
            [index |-> kept[k].index, Timestamp |-> kept[k].Timestamp,
             Glucose |-> IntOf(kept[k].Sensor)]]

\* the orders of the rows of df
RowOrders(df) ==
    {[k \in 1..Len(df) |-> df[p[k]]] :
        p \in {q \in [1..Len(df) -> 1..Len(df)] :
                 \A j, k \in 1..Len(df) : j # k => q[j] # q[k]}}

\* mutant: the rows stay in file order
SortValues_fileOrder(df) == {df}

\* df.sort_values('Timestamp'): ascending; the default quicksort is not
\* stable, so rows with equal timestamps may come out in any order
SortValues(df) ==
    {s \in RowOrders(df) :
        \A k \in 1..(Len(s) - 1) : s[k].Timestamp <= s[k + 1].Timestamp}

\* the frames the constructor may store for a file
_load_glucose_data(file) == SortValues(DropNaGlucose(ReadCsv(file)))

\* __init__ on any file
InitLoad ==
    /\ \E file \in CsvFiles : glucose_df \in _load_glucose_data(file)
    /\ heap = <<EmptyDict>>
    /\ self_metrics = 1
    /\ returned = <<>>
    /\ raised = "none"
    /\ scan = ScanIdle
    /\ agp = AgpNone
    /\ report = ReportNone
    /\ batch = BatchIdle
    /\ wizard = WizardIdle
    /\ validator = ValidatorIdle

\* the MAGE scan over the loaded frame
NextLoad == MageBegin \/ MageIterate \/ MageReturn

SpecLoad == InitLoad /\ [][NextLoad]_vars

\* ------------------------------------------------- CGMValidator.validate
\* A column name is the sequence of its characters.
Col ==
    [Date |-> <<"D", "a", "t", "e">>,
     Time |-> <<"T", "i", "m", "e">>,
     DATE |-> <<"D", "A", "T", "E">>,
     TIME |-> <<"T", "I", "M", "E">>,
     Timestamp |-> <<"T", "i", "m", "e", "s", "t", "a", "m", "p">>,
     Glucose |-> <<"G", "l", "u", "c", "o", "s", "e">>,
     SensorGlucose |->
         <<"S", "e", "n", "s", "o", "r", " ", "G", "l", "u", "c", "o", "s", "e",
           " ", "(", "m", "g", "/", "d", "L", ")">>,
     BG |-> <<"B", "G">>]

\* str.lower()
Lower(s) ==
    LET UpperCase ==
            <<"A", "B", "C", "D", "E", "F", "G", "H", "I", "J", "K", "L", "M",
              "N", "O", "P", "Q", "R", "S", "T", "U", "V", "W", "X", "Y", "Z">>
        LowerCase ==
            <<"a", "b", "c", "d", "e", "f", "g", "h", "i", "j", "k", "l", "m",
              "n", "o", "p", "q", "r", "s", "t", "u", "v", "w", "x", "y", "z">>
    IN  [k \in 1..Len(s) |->
            IF \E u \in 1..26 : UpperCase[u] = s[k]
            THEN LowerCase[CHOOSE u \in 1..26 : UpperCase[u] = s[k]]
            ELSE s[k]]

\* p in s, for strings
Contains(s, p) ==
    \E i \in 1..(Len(s) - Len(p) + 1) : SubSeq(s, i, i + Len(p) - 1) = p

\* name in df.columns
InColumns(name, columns) == \E k \in 1..Len(columns) : columns[k] = name

\* The files validate() is run on.  A row holds the minute its date and time
\* cells parse to together (NotADate when pd.to_datetime raises on them) and
\* the characters of its glucose cell (<<>> for an empty cell, read as NaN).
NotADate == 0 - 1

MaxValRows == 2

CsvFrames ==
    LET WhenCells == {NotADate, 0, 5, 60}
        GlucoseCells == {<<>>, <<"L", "o", "w">>, <<"1", "0">>, <<"1", "0", "0">>}
        ColumnLists ==
            {<<Col.Date, Col.Time, Col.SensorGlucose>>,
             <<Col.Date, Col.Time>>,
             <<Col.Timestamp, Col.Glucose>>,
             <<Col.DATE, Col.TIME, Col.BG>>,
             <<Col.Timestamp, Col.Date, Col.Time, Col.SensorGlucose>>}
    IN  [columns : ColumnLists,
         rows : SeqsUpTo([when : WhenCells, glucose : GlucoseCells], MaxValRows),
         parsed : {FALSE}]

\* the paths given to the validator: no such file, a file read_csv raises
\* on, a file it reads; sizes in bytes are 0, ordinary, above 100MB
ValidatedPaths ==
    LET FileSizes == {0, 2048, 101 * 1024 * 1024}
    IN  {NoPath}
        \cup [exists : {TRUE}, size : FileSizes, readable : {FALSE},
              frame : {NoFrame}]
        \cup [exists : {TRUE}, size : FileSizes \ {0}, readable : {TRUE},
              frame : CsvFrames]

\* validation_results["errors"].append and the like
AppendTo(list, r, text) == [r EXCEPT ![list] = Append(@, text)]
AddStatistics(r, key) == [r EXCEPT !.statistics = @ \cup {key}]
Invalidate(r) == [r EXCEPT !.is_valid = FALSE]

ValidatorRest == <<glucose_df, heap, self_metrics, returned, raised, scan, agp,
                   report, batch, wizard>>

\* _check_file_exists, lines 54-70
_check_file_exists ==
    /\ validator.pc = "validate"
    /\ LET r == validator.validation_results
           file_size == validator.file.size
       IN  IF ~validator.file.exists
           THEN validator' = [validator EXCEPT
                    !.pc = "returned",
                    !.validation_results = AppendTo("errors", Invalidate(r), "file does not exist")]
           ELSE IF file_size = 0
           THEN validator' = [validator EXCEPT
                    !.pc = "returned",
                    !.validation_results = AppendTo("errors", Invalidate(r), "file is empty")]
           ELSE validator' = [validator EXCEPT
                    !.pc = "_load_data",
                    !.validation_results =
                        IF file_size > 100 * 1024 * 1024
                        THEN AppendTo("warnings", r, "file too large") ELSE r]
    /\ UNCHANGED ValidatorRest

\* _load_data, lines 73-102: read_csv raises (no columns to parse, a tokenizing
\* error) or gives a frame; a frame without rows is an error too.  latin1
\* decodes every byte, so the loop over encodings never leaves df None.
_load_data ==
    /\ validator.pc = "_load_data"
    /\ LET r == validator.validation_results
           df == validator.file.frame
       IN  IF ~validator.file.readable
           THEN validator' = [validator EXCEPT
                    !.pc = "returned",
                    !.validation_results = AppendTo("errors", Invalidate(r), "read error")]
           ELSE IF Len(df.rows) = 0
           THEN validator' = [validator EXCEPT
                    !.pc = "returned",
                    !.validation_results = AppendTo("errors", Invalidate(r), "file has no data")]
           ELSE validator' = [validator EXCEPT
                    !.pc = "_check_required_columns", !.df = df]
    /\ UNCHANGED ValidatorRest

\* required_columns, lines 106-111; the names written in CJK script are left
\* out, no column of ColumnLists being written in it
required_columns ==
    [Date |-> <<<<"d", "a", "t", "e">>, Col.Date, Col.DATE, Col.Timestamp>>,
     Time |-> <<<<"t", "i", "m", "e">>, Col.Time, Col.TIME, Col.Timestamp>>,
     Glucose |-> <<Col.SensorGlucose, Col.Glucose,
                   <<"g", "l", "u", "c", "o", "s", "e">>,
                   <<"B", "l", "o", "o", "d", " ", "G", "l", "u", "c", "o", "s", "e">>,
                   Col.BG>>]

missing_columns(columns) ==
    {key \in DOMAIN required_columns :
        ~\E n \in 1..Len(required_columns[key]) :
            InColumns(required_columns[key][n], columns)}

\* _check_required_columns, lines 104-135
_check_required_columns ==
    /\ validator.pc = "_check_required_columns"
    /\ LET r == validator.validation_results
       IN  validator' = [validator EXCEPT
               !.pc = "_check_data_types",
               !.validation_results =
                   IF missing_columns(validator.df.columns) # {}
                   THEN AppendTo("suggestions",
                            AppendTo("errors", Invalidate(r), "missing required columns"),
                            "required columns")
                   ELSE AddStatistics(r, "columns_found")]
    /\ UNCHANGED ValidatorRest

\* str(x) of an empty cell is nan
\* str(x).replace('.', '').replace('-', '').isdigit()
LooksNumeric(cell) ==
    LET str == IF cell = <<>> THEN <<"n", "a", "n">> ELSE cell
    IN  IsDigit(SelectSeq(str, LAMBDA c : c # "." /\ c # "-"))

\* _check_data_types, lines 137-151
_check_data_types ==
    /\ validator.pc = "_check_data_types"
    /\ LET r == validator.validation_results
           df == validator.df
           non_numeric == {k \in 1..Len(df.rows) : ~LooksNumeric(df.rows[k].glucose)}
       IN  validator' = [validator EXCEPT
               !.pc = "_check_date_time_format",
               !.validation_results =
                   IF (InColumns(Col.SensorGlucose, df.columns)
                          \/ InColumns(Col.Glucose, df.columns))
                      /\ Cardinality(non_numeric) > 0
                   THEN AppendTo("warnings", r, "non-numeric glucose values") ELSE r]
    /\ UNCHANGED ValidatorRest

\* the loop of lines 159-163 and 242-246: the last column whose lower-case
\* name contains the word, 0 for None
LastColumnWith(columns, word) ==
    IF \E k \in 1..Len(columns) : Contains(Lower(columns[k]), word)
    THEN CHOOSE k \in 1..Len(columns) :
             /\ Contains(Lower(columns[k]), word)
             /\ \A j \in (k + 1)..Len(columns) : ~Contains(Lower(columns[j]), word)
    ELSE 0

date_col(columns) == LastColumnWith(columns, <<"d", "a", "t", "e">>)
time_col(columns) == LastColumnWith(columns, <<"t", "i", "m", "e">>)

\* pd.to_datetime(df[date_col] + ' ' + df[time_col]) raises
ToDatetimeRaises(df) == \E k \in 1..Len(df.rows) : df.rows[k].when = NotADate

\* the except clause of lines 174-178: an error and a suggestion, is_valid
\* untouched
DateTimeError(r) ==
    AppendTo("suggestions", AppendTo("errors", r, "cannot parse date and time"),
                  "date and time format")

\* _check_date_time_format, lines 153-178
_check_date_time_format ==
    /\ validator.pc = "_check_date_time_format"
    /\ LET r == validator.validation_results
           df == validator.df
           \* df['Timestamp'] = ...: a new last column unless the frame has one
           with_timestamp ==
               [df EXCEPT !.columns = IF InColumns(Col.Timestamp, @) THEN @
                                      ELSE Append(@, Col.Timestamp),
                          !.parsed = TRUE]
           is_monotonic_increasing ==
               \A k \in 1..(Len(df.rows) - 1) :
                   df.rows[k].when <= df.rows[k + 1].when
       IN  IF date_col(df.columns) # 0 /\ time_col(df.columns) # 0
           THEN IF ToDatetimeRaises(df)
                THEN validator' = [validator EXCEPT
                         !.pc = "_check_glucose_values",
                         !.validation_results = DateTimeError(r)]
                ELSE validator' = [validator EXCEPT
                         !.pc = "_check_glucose_values",
                         !.df = with_timestamp,
                         !.validation_results =
                             IF ~is_monotonic_increasing
                             THEN AppendTo("warnings", r, "time order") ELSE r]
           ELSE validator' = [validator EXCEPT !.pc = "_check_glucose_values"]
    /\ UNCHANGED ValidatorRest

\* lines 183-186: the first column whose lower-case name contains glucose or
\* bg, 0 for None
glucose_col(columns) ==
    LET Named(k) == \/ Contains(Lower(columns[k]), <<"g", "l", "u", "c", "o", "s", "e">>)
                    \/ Contains(Lower(columns[k]), <<"b", "g">>)
    IN  IF \E k \in 1..Len(columns) : Named(k)
        THEN CHOOSE k \in 1..Len(columns) :
                 Named(k) /\ \A j \in 1..(k - 1) : ~Named(j)
        ELSE 0

valid_range == <<20, 600>>

\* pd.to_numeric(errors='coerce') on the glucose column, in place
CoerceGlucose(df) ==
    [df EXCEPT !.rows =
        [k \in 1..Len(@) |->
            [@[k] EXCEPT !.glucose = IF CoercedToNan(@) THEN <<>> ELSE @]]]

\* _check_glucose_values, lines 180-212
_check_glucose_values ==
    /\ validator.pc = "_check_glucose_values"
    /\ LET r == validator.validation_results
           df == CoerceGlucose(validator.df)
           out_of_range ==
               {k \in 1..Len(df.rows) :
                   /\ df.rows[k].glucose # <<>>
                   /\ \/ IntOf(df.rows[k].glucose) < valid_range[1]
                      \/ IntOf(df.rows[k].glucose) > valid_range[2]}
           valid_glucose == {k \in 1..Len(df.rows) : df.rows[k].glucose # <<>>}
           r1 == IF out_of_range # {} THEN AppendTo("warnings", r, "out of range") ELSE r
           r2 == IF valid_glucose # {} THEN AddStatistics(r1, "glucose_stats") ELSE r1
       IN  IF glucose_col(validator.df.columns) = 0
           THEN validator' = [validator EXCEPT !.pc = "_check_data_completeness"]
           ELSE validator' = [validator EXCEPT
                    !.pc = "_check_data_completeness",
                    !.df = df,
                    !.validation_results = r2]
    /\ UNCHANGED ValidatorRest

\* _check_data_completeness, lines 214-235
_check_data_completeness ==
    /\ validator.pc = "_check_data_completeness"
    /\ LET r == validator.validation_results
           df == validator.df
           total_rows == Len(df.rows)
           \* df[col].isna().sum(): only the column of the glucose cells
           \* can hold NaN
           missing_count ==
               IF \E k \in 1..Len(df.columns) :
                      df.columns[k] \in {Col.SensorGlucose, Col.Glucose, Col.BG}
               THEN Cardinality({k \in 1..Len(df.rows) : df.rows[k].glucose = <<>>})
               ELSE 0
           r1 == IF missing_count > 0 /\ missing_count * 100 > 30 * total_rows
                 THEN AppendTo("warnings", r, "missing values") ELSE r
           r2 == IF missing_count > 0 THEN AddStatistics(r1, "missing_data") ELSE r1
       IN  validator' = [validator EXCEPT
               !.pc = "_check_data_continuity", !.validation_results = r2]
    /\ UNCHANGED ValidatorRest

\* _check_data_continuity, lines 237-284
_check_data_continuity ==
    /\ validator.pc = "_check_data_continuity"
    /\ LET r == validator.validation_results
           df == validator.df
           \* df.sort_values('Timestamp')['Timestamp']
           t == SortAsc([k \in 1..Len(df.rows) |-> df.rows[k].when])
           \* the body of the try raises: to_datetime fails as it did before,
           \* or time_col is by now the parsed Timestamp column and a string
           \* is added to a datetime (TypeError), or all readings bear one
           \* time and the coverage divides by zero (no gap was found then)
           raises ==
               \/ ToDatetimeRaises(df)
               \/ df.parsed /\ df.columns[time_col(df.columns)] = Col.Timestamp
               \/ Len(t) > 1 /\ t[Len(t)] = t[1]
           large_gaps == {k \in 2..Len(t) : t[k] - t[k - 1] > 30}
           total_duration == t[Len(t)] - t[1]
           r1 == IF large_gaps # {} THEN AppendTo("warnings", r, "large gaps") ELSE r
           r2 == IF Len(t) > 1 THEN AddStatistics(r1, "coverage") ELSE r1
           \* coverage = len(df) / (total_duration / 5 minutes) * 100 < 70
           r3 == IF Len(t) > 1 /\ Len(t) * 5 * 100 < 70 * total_duration
                 THEN AppendTo("warnings", r2, "low coverage") ELSE r2
       IN  IF date_col(df.columns) # 0 /\ time_col(df.columns) # 0
           THEN IF raises
                THEN validator' = [validator EXCEPT
                         !.pc = "_generate_statistics",
                         !.validation_results =
                             AppendTo("warnings", r, "cannot check continuity")]
                ELSE validator' = [validator EXCEPT
                         !.pc = "_generate_statistics",
                         !.validation_results = r3]
           ELSE validator' = [validator EXCEPT !.pc = "_generate_statistics"]
    /\ UNCHANGED ValidatorRest

\* _generate_statistics, lines 286-294
_generate_statistics ==
    /\ validator.pc = "_generate_statistics"
    /\ validator' = [validator EXCEPT
           !.pc = "_provide_suggestions",
           !.validation_results = AddStatistics(@, "basic_info")]
    /\ UNCHANGED ValidatorRest

\* _provide_suggestions, lines 296-306, and the return of validate
_provide_suggestions ==
    /\ validator.pc = "_provide_suggestions"
    /\ LET r == validator.validation_results
           r1 == IF ~r.is_valid THEN AppendTo("suggestions", r, "fix the errors") ELSE r
           r2 == IF r1.warnings # <<>> THEN AppendTo("suggestions", r1, "handle the warnings") ELSE r1
       IN  validator' = [validator EXCEPT
               !.pc = "returned", !.validation_results = r2]
    /\ UNCHANGED ValidatorRest

\* CGMValidator(file_path), about to run validate()
InitValidate ==
    /\ glucose_df = <<>>
    /\ heap = <<EmptyDict>>
    /\ self_metrics = 1
    /\ returned = <<>>
    /\ raised = "none"
    /\ scan = ScanIdle
    /\ agp = AgpNone
    /\ report = ReportNone
    /\ batch = BatchIdle
    /\ wizard = WizardIdle
    /\ \E file \in ValidatedPaths :
           validator = [ValidatorIdle EXCEPT !.pc = "validate", !.file = file]

NextValidate ==
    \/ _check_file_exists
    \/ _load_data
    \/ _check_required_columns
    \/ _check_data_types
    \/ _check_date_time_format
    \/ _check_glucose_values
    \/ _check_data_completeness
    \/ _check_data_continuity
    \/ _generate_statistics
    \/ _provide_suggestions

SpecValidate == InitValidate /\ [][NextValidate]_vars

\* =================================================================== claims
\* the finished calls, the snapshot each one handed back and its target range
Calls == 1..Len(returned)

Snapshot(k) == returned[k].snapshot

LowLimit(k) == returned[k].target_range[1]

HighLimit(k) == returned[k].target_range[2]

Readings == GlucoseValues(glucose_df)

Hundred == FromInt(100)

Zero == FromInt(0)

FiveBandSum(m) ==
    RSum(<<m["Very Low (<54)"], m["Low (54-69)"], m["TIR"],
           m["High (181-250)"], m["Very High (>250)"]>>)

ThreeBandSum(m) == RSum(<<m["TBR"], m["TIR"], m["TAR"]>>)

SubBands(m) ==
    <<m["Very Low (<54)"], m["Low (54-69)"], m["High (181-250)"],
      m["Very High (>250)"]>>

\* C1: for a non-empty reading sequence and a target range with low < high,
\* the percentages Very Low + Low + TIR + High + Very High of a snapshot add
\* up to 100.
C1_FiveBandsSumTo100 ==
    \A k \in Calls :
        (Len(glucose_df) > 0 /\ LowLimit(k) < HighLimit(k))
            => FiveBandSum(Snapshot(k)) = Hundred

\* C2: a calculate_metrics call on an analyzer with zero readings ends with
\* EmptyInputError, hands back no snapshot and stores no metric value.
C2_EmptyInputFails ==
    [][Len(glucose_df) = 0
          => (raised' = "EmptyInputError" /\ returned' = returned /\ heap' = heap)]_vars

\* C3: no call with low >= high hands back a snapshot: such a call would
\* have ended with InvalidRangeError before computing TIR/TAR/TBR.
C3_InvertedRangeFails ==
    \A k \in Calls : LowLimit(k) < HighLimit(k)

\* C4: for a non-empty reading sequence and a target range with low < high,
\* TBR + TIR + TAR = 100 in every snapshot.
C4_TwoBandSummary ==
    \A k \in Calls :
        (Len(glucose_df) > 0 /\ LowLimit(k) < HighLimit(k))
            => ThreeBandSum(Snapshot(k)) = Hundred

\* C4 witness: a custom range with readings below, inside and above it
C4_Witness ==
    \E k \in Calls :
        /\ returned[k].target_range = <<63, 140>>
        /\ RLess(Zero, Snapshot(k)["TBR"])
        /\ RLess(Zero, Snapshot(k)["TIR"])
        /\ RLess(Zero, Snapshot(k)["TAR"])

\* C5: the dict a call handed back still holds the values it held when it
\* was handed back, whatever calls were made since.
C5_SnapshotNeverMutated ==
    \A k \in Calls : heap[returned[k].ref] = Snapshot(k)

\* C6: over the same readings the four detailed sub-bands and GRI are the
\* same for every target range, and TIR, TAR and TBR are the shares of the
\* readings inside, above and below the bounds of the call's own range.
C6_DualThresholds ==
    /\ \A j, k \in Calls :
          /\ SubBands(Snapshot(j)) = SubBands(Snapshot(k))
          /\ Snapshot(j)["GRI"] = Snapshot(k)["GRI"]
    /\ \A k \in Calls :
          LET n == Len(Readings)
              inside == {i \in 1..n : LowLimit(k) <= Readings[i]
                                       /\ Readings[i] <= HighLimit(k)}
              above == {i \in 1..n : Readings[i] > HighLimit(k)}
              below == {i \in 1..n : Readings[i] < LowLimit(k)}
          IN  /\ Snapshot(k)["TIR"] = Percent(Cardinality(inside), n)
              /\ Snapshot(k)["TAR"] = Percent(Cardinality(above), n)
              /\ Snapshot(k)["TBR"] = Percent(Cardinality(below), n)

\* C6 witness: two calls with different ranges that disagree on TIR while the
\* risk index is not zero
C6_Witness ==
    \E j, k \in Calls :
        /\ returned[j].target_range # returned[k].target_range
        /\ Snapshot(j)["TIR"] # Snapshot(k)["TIR"]
        /\ RLess(Zero, Snapshot(k)["GRI"])

IsConstant(v) == \A j, k \in 1..Len(v) : v[j] = v[k]

\* C7: a finished MAGE scan of a constant sequence, or of a sequence with
\* fewer than 2 readings, recorded no excursion and returns 0.
C7_MageZeroOnFlatOrShort ==
    (scan.pc = "done" /\ (IsConstant(Readings) \/ Len(Readings) < 2))
        => (scan.result = Zero /\ scan.locals.excursions = <<>>)

\* C7 witness: a finished scan of a constant sequence of several readings
C7_Witness ==
    scan.pc = "done" /\ IsConstant(Readings) /\ Len(Readings) >= 3

IsAlternating(v) ==
    /\ Len(v) >= 3
    /\ v[1] # v[2]
    /\ \A k \in 3..Len(v) : v[k] = v[k - 2]

\* C8: in a finished scan of a sequence alternating between a and b, with
\* |a - b| above the population SD, every step after the first reversed the
\* direction and recorded the amplitude |a - b|, and MAGE = |a - b|.
C8_AlternatingMage ==
    (/\ scan.pc = "done"
     /\ IsAlternating(Readings)
     /\ GreaterThanSqrt(Abs(Readings[1] - Readings[2]), scan.sd))
        => /\ scan.locals.excursions =
                  [k \in 1..(Len(Readings) - 2) |-> Abs(Readings[1] - Readings[2])]
           /\ scan.result = FromInt(Abs(Readings[1] - Readings[2]))

\* C8 witness: the finished scan of 40, 250, 40, 250, ... of length 10
C8_Witness ==
    /\ scan.pc = "done"
    /\ Readings = Alternating(40, 250, 10)
    /\ scan.result = FromInt(210)

\* C9: with the default range, a non-empty sequence whose values all lie in
\* [70, 180] gives TIR = 100, TAR = 0, TBR = 0 and GRI = 0.
C9_AllInDefaultRange ==
    \A k \in Calls :
        (/\ returned[k].target_range = DefaultTarget
         /\ Len(Readings) > 0
         /\ \A i \in 1..Len(Readings) : 70 <= Readings[i] /\ Readings[i] <= 180)
            => /\ Snapshot(k)["TIR"] = Hundred
               /\ Snapshot(k)["TAR"] = Zero
               /\ Snapshot(k)["TBR"] = Zero
               /\ Snapshot(k)["GRI"] = Zero

\* C9 witness: a default-range call on readings that touch both 70 and 180
C9_Witness ==
    \E k \in Calls :
        /\ returned[k].target_range = DefaultTarget
        /\ {Readings[i] : i \in 1..Len(Readings)} = {70, 180}

\* C10: for exactly one reading with value v > 0 a call raises nothing and
\* its snapshot has mean = median = v, SD = 0, CV = 0 and MAGE = 0.
C10_SingleReading ==
    (Len(Readings) = 1 /\ Readings[1] > 0)
        => /\ raised = "none"
           /\ \A k \in Calls :
                 /\ Snapshot(k)["Mean Glucose"] = FromInt(Readings[1])
                 /\ Snapshot(k)["Median Glucose"] = FromInt(Readings[1])
                 /\ Snapshot(k)["SD"] = Sqrt(Zero)
                 /\ Snapshot(k)["CV"] = Sqrt(Zero)
                 /\ Snapshot(k)["MAGE"] = Zero

\* C10 witness: a call has returned on an analyzer with a single reading
C10_Witness == Len(Readings) = 1 /\ Readings[1] > 0 /\ Calls # {}

\* the hours of the day in which the analyzer has at least one reading
HoursWithReadings ==
    {h \in 0..23 : \E k \in 1..Len(glucose_df) : Hour(glucose_df[k].Timestamp) = h}

\* C11: for fewer than 2 readings the AGP percentile bands are empty: a
\* drawn chart reports no hour bucket.
C11_NoBandsUnderTwoReadings ==
    (agp.drawn /\ Len(glucose_df) < 2) => DOMAIN agp.hourly_percentiles = {}

\* C18: the keys of the Hourly Pattern of every snapshot, and the buckets of
\* the percentile bands of a drawn chart, are exactly the hours in which at
\* least one reading lies.
C18_OnlyHoursWithReadings ==
    /\ \A k \in Calls : DOMAIN Snapshot(k)["Hourly Pattern"] = HoursWithReadings
    /\ agp.drawn => DOMAIN agp.hourly_percentiles = HoursWithReadings

\* C18 witness: a chart and a snapshot of a file whose readings lie in hour 1
\* and hour 23 only, none in the hours between and none at midnight
C18_Witness ==
    /\ agp.drawn
    /\ Calls # {}
    /\ HoursWithReadings = {1, 23}

\* C14: whatever calls were made before, the values the latest call handed
\* back are those a fresh analyzer (empty metrics dict) over the same
\* readings gives for the same target range.
C14_NoRetainedState ==
    Calls # {} =>
        LET k == Len(returned)
        IN  Snapshot(k) = MetricsAfter(EmptyDict, glucose_df, returned[k].target_range)

\* C14 witness: a second call, made with another range than the first
C14_Witness ==
    /\ Len(returned) >= 2
    /\ returned[1].target_range # returned[2].target_range
    /\ RLess(Zero, Snapshot(2)["GRI"])

BandKeys == {"Very Low (<54)", "Low (54-69)", "High (181-250)", "Very High (>250)"}

\* C15: the GRI of a snapshot is 3.0 VeryLow + 2.4 Low + 1.6 VeryHigh +
\* 0.8 High of the percentages of the same snapshot (ten times GRI is
\* 30, 24, 16 and 8 times them), and raising any one percentage alone
\* raises the index.
C15_GriFormula ==
    \A k \in Calls :
        LET m == Snapshot(k)
        IN  Len(Readings) > 0 =>
              /\ RMul(FromInt(10), m["GRI"]) =
                     RSum(<<RMul(FromInt(30), m["Very Low (<54)"]),
                            RMul(FromInt(24), m["Low (54-69)"]),
                            RMul(FromInt(16), m["Very High (>250)"]),
                            RMul(FromInt(8), m["High (181-250)"])>>)
              /\ \A key \in BandKeys : \A d \in {1, 50} :
                     RLess(m["GRI"],
                           _calculate_gri(Put(m, key, RAdd(m[key], FromInt(d)))))

\* C15 witness: a snapshot with different High and Very High percentages
C15_Witness ==
    \E k \in Calls :
        /\ RLess(Zero, Snapshot(k)["High (181-250)"])
        /\ RLess(Snapshot(k)["High (181-250)"], Snapshot(k)["Very High (>250)"])
        /\ RLess(Zero, Snapshot(k)["Low (54-69)"])

\* C16: GMI - 3.31 = 0.02392 * mean in every snapshot, and compared with any
\* other sequence the GMI is ordered as the means are.
C16_GmiFormula ==
    \A k \in Calls :
        LET mean == Snapshot(k)["Mean Glucose"]
            gmi == Snapshot(k)["GMI"]
        IN  Len(Readings) > 0 =>
              /\ RAdd(gmi, Rat(0 - 331, 100)) = RMul(Rat(2392, 100000), mean)
              /\ \A other \in SeqsUpTo(ReportValues, 2) \ {<<>>} :
                    /\ RLess(NpMean(other), mean) => RLess(GMI(NpMean(other)), gmi)
                    /\ RLess(mean, NpMean(other)) => RLess(gmi, GMI(NpMean(other)))

\* C16 witness: a snapshot whose mean lies strictly between other means
C16_Witness ==
    \E k \in Calls :
        /\ RLess(FromInt(40), Snapshot(k)["Mean Glucose"])
        /\ RLess(Snapshot(k)["Mean Glucose"], FromInt(260))

\* C17: a written report names exactly the tier of the GRI it read: below 20
\* low, from 20 moderate-low, from 40 moderate, from 60 moderate-high, from
\* 80 high.
C17_RiskTiers ==
    (report.written /\ Len(Readings) > 0) =>
        LET gri == heap[self_metrics]["GRI"]
            tier == IF gri.n < 20 * gri.d THEN "low"
                    ELSE IF gri.n < 40 * gri.d THEN "moderate-low"
                    ELSE IF gri.n < 60 * gri.d THEN "moderate"
                    ELSE IF gri.n < 80 * gri.d THEN "moderate-high"
                    ELSE "high"
        IN  report.risk_level = tier

\* C17 witness: a report written for a GRI of exactly 60
C17_Witness ==
    /\ report.written
    /\ Len(Readings) > 0
    /\ heap[self_metrics]["GRI"] = FromInt(60)
    /\ report.risk_level = "moderate-high"

\* the difference the iteration about to run looks at, glucose[i] - glucose[i-1]
ScanDelta == Readings[scan.i + 1] - Readings[scan.i]

\* the loop is about to run the iteration for the index scan.i
ScanStepping == scan.pc = "loop" /\ scan.i < Len(Readings)

ScanNoise == ~GreaterThanSqrt(Abs(ScanDelta), scan.sd)

ScanReversal ==
    /\ GreaterThanSqrt(Abs(ScanDelta), scan.sd)
    /\ scan.locals.direction # 0
    /\ Sign(ScanDelta) = 0 - scan.locals.direction

ScanContinuation ==
    /\ GreaterThanSqrt(Abs(ScanDelta), scan.sd)
    /\ scan.locals.direction # 0
    /\ Sign(ScanDelta) = scan.locals.direction

\* |glucose[i-1] - glucose[excursion_start]| of the iteration about to run
ScanAmplitude == Abs(Readings[scan.i] - Readings[scan.locals.excursion_start + 1])

\* C19: an iteration whose |delta| exceeds the SD against the current
\* direction appends the amplitude |value[i-1] - value[excursion_start]| to
\* the excursions exactly when it exceeds the SD, and in both cases sets
\* direction to the sign of delta and excursion_start to i-1.
C19_ReversalStep ==
    [][(ScanStepping /\ ScanReversal)
          => /\ scan'.locals.direction = Sign(ScanDelta)
             /\ scan'.locals.excursion_start = scan.i - 1
             /\ scan'.locals.excursions =
                    IF GreaterThanSqrt(ScanAmplitude, scan.sd)
                    THEN Append(scan.locals.excursions, ScanAmplitude)
                    ELSE scan.locals.excursions]_vars

\* the locals before the iteration for the index i, and what it looked at
LocalsBefore(i) == MageScan(Readings, scan.sd, i - 1)

DeltaAt(i) == Readings[i + 1] - Readings[i]

ReversalAt(i) ==
    /\ GreaterThanSqrt(Abs(DeltaAt(i)), scan.sd)
    /\ LocalsBefore(i).direction # 0
    /\ Sign(DeltaAt(i)) = 0 - LocalsBefore(i).direction

AmplitudeAt(i) ==
    Abs(Readings[i] - Readings[LocalsBefore(i).excursion_start + 1])

\* C19 witness: the scan has run two reversals, the first with an amplitude
\* above the SD (recorded) and the second, after the swing drifted back,
\* with an amplitude of at most the SD (not recorded)
C19_Witness ==
    /\ scan.pc = "loop"
    /\ \E i, j \in 1..(scan.i - 1) :
          /\ i < j
          /\ ReversalAt(i)
          /\ GreaterThanSqrt(AmplitudeAt(i), scan.sd)
          /\ ReversalAt(j)
          /\ ~GreaterThanSqrt(AmplitudeAt(j), scan.sd)
          /\ scan.locals.excursions = <<AmplitudeAt(i)>>

\* C20: an iteration whose |delta| is at most the SD, and one whose |delta|
\* exceeds the SD in the current direction, leave direction, excursion_start
\* and the excursions as they were.
C20_NoiseAndContinuationFrame ==
    [][(ScanStepping /\ (ScanNoise \/ ScanContinuation))
          => /\ scan'.locals.direction = scan.locals.direction
             /\ scan'.locals.excursion_start = scan.locals.excursion_start
             /\ scan'.locals.excursions = scan.locals.excursions]_vars

\* C20 witness: after an excursion was recorded the scan has run a noise
\* iteration and a continuation iteration
C20_Witness ==
    /\ scan.pc = "loop"
    /\ scan.locals.excursions # <<>>
    /\ \E i, j \in 1..(scan.i - 1) :
          /\ LocalsBefore(i).excursions # <<>>
          /\ ~GreaterThanSqrt(Abs(DeltaAt(i)), scan.sd)
          /\ LocalsBefore(j).excursions # <<>>
          /\ GreaterThanSqrt(Abs(DeltaAt(j)), scan.sd)
          /\ Sign(DeltaAt(j)) = LocalsBefore(j).direction

\* C13: every configuration the setup wizard has written has
\* defaults.target_range.low < defaults.target_range.high, so test_config
\* accepts it.
C13_WizardWritesOrderedRange ==
    wizard.pc = "saved"
        => (wizard.file.low < wizard.file.high /\ test_config(wizard.file))

\* C12: a file whose worker ran longer than the 300 s timeout is recorded
\* as failed: once the loop is through with it, it is in errors and not in
\* results.
C12_TimedOutFileRecordedFailed ==
    \A f \in batch.collected :
        f \in batch.overran
            => /\ \E k \in 1..Len(batch.errors) : batch.errors[k].file = f
               /\ \A k \in 1..Len(batch.results) : batch.results[k].file # f

IsMonotone(v) ==
    \/ \A k \in 1..(Len(v) - 1) : v[k] <= v[k + 1]
    \/ \A k \in 1..(Len(v) - 1) : v[k] >= v[k + 1]

\* C21: a finished scan of a monotone sequence, whatever its steps, or of a
\* sequence of two readings, recorded no excursion and returns 0.
C21_OpenSwingNotCounted ==
    (scan.pc = "done" /\ (IsMonotone(Readings) \/ Len(Readings) = 2))
        => (scan.locals.excursions = <<>> /\ scan.result = Zero)

\* C21 witness: the finished scan of a rising sequence with uneven steps, in
\* which a swing was opened and never closed
C21_Witness ==
    /\ scan.pc = "done"
    /\ Len(Readings) >= 4
    /\ \A k \in 1..(Len(Readings) - 1) : Readings[k] < Readings[k + 1]
    /\ \E j, k \in 1..(Len(Readings) - 1) :
          Readings[j + 1] - Readings[j] # Readings[k + 1] - Readings[k]
    /\ scan.locals.direction = 1

RECURSIVE MaxOf(_)
MaxOf(v) ==
    IF Len(v) = 1 THEN v[1]
    ELSE IF Head(v) >= MaxOf(Tail(v)) THEN Head(v) ELSE MaxOf(Tail(v))

RECURSIVE MinOf(_)
MinOf(v) ==
    IF Len(v) = 1 THEN v[1]
    ELSE IF Head(v) <= MinOf(Tail(v)) THEN Head(v) ELSE MinOf(Tail(v))

\* C22: every amplitude the scan has recorded is above the population SD and
\* at most max - min of the readings, and the MAGE returned is 0 or lies in
\* (SD, max - min].
C22_AmplitudeBounds ==
    /\ \A k \in 1..Len(scan.locals.excursions) :
          /\ GreaterThanSqrt(scan.locals.excursions[k], scan.sd)
          /\ scan.locals.excursions[k] <= MaxOf(Readings) - MinOf(Readings)
    /\ scan.pc = "done" =>
          \/ scan.result = Zero
          \/ /\ RLess(scan.sd.sqrt, RMul(scan.result, scan.result))
             /\ ~RLess(FromInt(MaxOf(Readings) - MinOf(Readings)), scan.result)

\* C22 witness: a finished scan with two different amplitudes recorded, one
\* of them smaller than max - min
C22_Witness ==
    /\ scan.pc = "done"
    /\ Len(scan.locals.excursions) >= 2
    /\ \E j, k \in 1..Len(scan.locals.excursions) :
          /\ scan.locals.excursions[j] # scan.locals.excursions[k]
          /\ scan.locals.excursions[j] < MaxOf(Readings) - MinOf(Readings)

\* C30: while the loop runs, a direction other than 0 comes with an
\* excursion_start that has been assigned and lies below the index of the
\* iteration that ran last; and a direction other than 0 never becomes 0.
C30_StartBoundBeforeUse ==
    /\ [](scan.pc \in {"loop", "done"} /\ scan.locals.direction # 0
             => /\ scan.locals.excursion_start # Unbound
                /\ scan.locals.excursion_start >= 0
                /\ scan.locals.excursion_start < scan.i - 1)
    /\ [][scan.locals.direction # 0 => scan'.locals.direction # 0]_vars

\* C30 witness: a reversal has just moved excursion_start to i-1, the highest
\* value it can have, with the direction turned downwards
C30_Witness ==
    /\ scan.pc = "loop"
    /\ scan.i >= 4
    /\ scan.locals.direction = 0 - 1
    /\ scan.locals.excursion_start = scan.i - 2
    /\ ReversalAt(scan.i - 1)

\* C29: for a non-empty sequence and any target range the GRI of a snapshot
\* is 0 exactly when every reading lies in [70, 180], and above 0 otherwise.
C29_GriZeroIffInRange ==
    \A k \in Calls :
        Len(Readings) > 0 =>
            LET allIn == \A i \in 1..Len(Readings) :
                             70 <= Readings[i] /\ Readings[i] <= 180
            IN  /\ (Snapshot(k)["GRI"] = Zero) <=> allIn
                /\ ~allIn => RLess(Zero, Snapshot(k)["GRI"])

\* C29 witness: a call with the range 63-140 whose readings all lie inside
\* that range (TIR = 100) but not inside [70, 180], so that GRI is above 0
C29_Witness ==
    \E k \in Calls :
        /\ returned[k].target_range = <<63, 140>>
        /\ Snapshot(k)["TIR"] = Hundred
        /\ RLess(Zero, Snapshot(k)["GRI"])

\* C23: in every snapshot the Mean of Daily SDs has one term for every
\* calendar day that has a reading, a day with a single reading included:
\* as many terms as Days Analyzed says, and as many as there are dates.
C23_EveryDayContributes ==
    \A k \in Calls :
        LET stats == Snapshot(k)["Daily Stats"]
            dates == {Date(glucose_df[j].Timestamp) : j \in 1..Len(glucose_df)}
        IN  /\ stats["Days Analyzed"] = Cardinality(dates)
            /\ stats["Mean of Daily SDs"].over = stats["Days Analyzed"]

\* C25: no step of calculate_metrics or create_agp changes the analyzer's
\* stored readings: rows, their order, their values and their columns.
C25_ReadingsImmutable == [][glucose_df' = glucose_df]_vars

\* C25 witness: a chart was drawn and the metrics were computed on a frame
\* with readings on two days
C25_Witness ==
    /\ agp.drawn
    /\ Len(returned) >= 2
    /\ Len(glucose_df) >= 2
    /\ \E j, k \in 1..Len(glucose_df) :
          Date(glucose_df[j].Timestamp) # Date(glucose_df[k].Timestamp)

\* C24: whatever the row order of the file, the frame the analysis and the
\* MAGE scan work on has its rows in non-decreasing Timestamp order.
C24_SortedByTimestamp ==
    \A k \in 1..(Len(glucose_df) - 1) :
        glucose_df[k].Timestamp <= glucose_df[k + 1].Timestamp

\* C24 witness: a finished scan over three readings with distinct timestamps
\* that stood in the file in the opposite order
C24_Witness ==
    /\ scan.pc = "done"
    /\ Len(glucose_df) = 3
    /\ \A k \in 1..2 :
          /\ glucose_df[k].Timestamp < glucose_df[k + 1].Timestamp
          /\ glucose_df[k].index > glucose_df[k + 1].index

\* the files whose worker ended in the except clause of _process_single_file
WorkerErrors == {f \in batch.files : batch.future[f] = "error"}

\* C26: in a returned summary every file whose worker ended with status
\* "error" is in errors, is counted in "failed" and is not counted in
\* "successful".
C26_WorkerErrorCountsAsFailed ==
    "failed" \in DOMAIN batch.summary =>
        /\ \A f \in WorkerErrors :
               /\ \E k \in 1..Len(batch.errors) : batch.errors[k].file = f
               /\ \A k \in 1..Len(batch.results) : batch.results[k].file # f
        /\ batch.summary.failed >= Cardinality(WorkerErrors)
        /\ batch.summary.successful <= Cardinality(batch.files \ WorkerErrors)

\* C28: whatever process_files returned, main ends by returning an exit
\* status, which is 0 only for a summary without failures, and raises
\* nothing.
C28_MainReturnsExitStatus ==
    batch.pc = "exited" =>
        /\ batch.main_raised = "none"
        /\ batch.exit_status \in {0, 1}
        /\ batch.exit_status = 0 =>
               ("failed" \in DOMAIN batch.summary /\ batch.summary.failed = 0)

\* C27: after validate() returns, is_valid is true exactly when the errors
\* list is empty.
C27_ValidIffNoErrors ==
    validator.pc = "returned" =>
        (validator.validation_results.is_valid
            <=> validator.validation_results.errors = <<>>)

====
